---- MODULE Spec2Model ----
(***************************************************************************)
(* The cats resource store and its four handlers (allCatsHandlers.go,      *)
(* oneCatHandlers.go): the package-level map catsDatabase, listCats,       *)
(* createCat, getCat and deleteCat.  Each handler is an operator from the  *)
(* store and the request to the set of its possible outcomes, and one      *)
(* action applies it to the state.  The variables last and prev record the *)
(* two most recent request/response pairs as a client sees them.           *)
(***************************************************************************)
EXTENDS Naturals, Sequences, FiniteSets, TLC

\* ------------------------------------------------------------------ bounds

\* The number of distinct values uuid.New() can return in one run.
MaxUUIDs == 2

\* The longest text that follows the leading segments of a request path.
MaxTail == 3

\* ------------------------------------------------------------------ values

\* net/http status codes used by the handlers.
StatusOK == 200
StatusCreated == 201
StatusNoContent == 204
StatusBadRequest == 400
StatusNotFound == 404

\* type Cat struct { Name, ID, BirthDate, Color string }
Cat(name, id, birthDate, color) ==
    [name |-> name, id |-> id, birthDate |-> birthDate, color |-> color]

\* var catCreationData Cat: the zero value of the struct.
ZeroCat == Cat("", "", "", "")

\* The key of the record catsDatabase is initialised with.
SeedKeys == {"id1"}

\* var catsDatabase = map[string]Cat{"id1": {Name: "Toto", Color: "Grey",
\* BirthDate: "2023-04-16"}}: the seed record's ID field is left empty.
InitialDatabase == [k \in SeedKeys |-> Cat("Toto", "", "2023-04-16", "Grey")]

\* The values uuid.New().String() draws from, in the textual form of a
\* version 4 UUID.
UUIDSeq ==
    << "0b0e5c3a-7a0d-4c55-9b1e-000000000001",
       "0b0e5c3a-7a0d-4c55-9b1e-000000000002",
       "0b0e5c3a-7a0d-4c55-9b1e-000000000003",
       "0b0e5c3a-7a0d-4c55-9b1e-000000000004",
       "0b0e5c3a-7a0d-4c55-9b1e-000000000005" >>

UUIDs == {UUIDSeq[i] : i \in 1..MaxUUIDs}

\* Ids a client makes up itself: the seed's key and one the program never
\* stored.
ClientIds == {"id1", "test-cat-id-123"}

\* The values a request carries as its catId path value: the empty string
\* (no segment), an id the client made up, or any UUID.
PathIds == {""} \cup ClientIds \cup UUIDs

\* The values of the handlers' second result (any): nil, a string, a Cat or
\* a []string, tagged with the dynamic type.
NilBody == [type |-> "nil"]
StringBody(s) == [type |-> "string", str |-> s]
CatBody(c) == [type |-> "Cat", cat |-> c]
IdsBody(ids) == [type |-> "[]string", ids |-> ids]

\* ------------------------------------------------------------------ JSON

\* A JSON value of a request body, as far as the decoder tells values apart:
\* a member of an object is absent, null, a string or a number.
JAbsent == [t |-> "absent"]
JNull == [t |-> "null"]
JNumber == [t |-> "number"]
JString(s) == [t |-> "string", s |-> s]

\* A request body: text that is no JSON, the literal null, an array, or an
\* object with the four members the Cat struct names.
InvalidJSON == [syntax |-> "invalid"]
NullJSON == [syntax |-> "null"]
ArrayJSON == [syntax |-> "array"]
ObjectJSON(name, id, birthDate, color) ==
    [syntax |-> "object",
     members |-> [name |-> name, id |-> id, birthDate |-> birthDate, color |-> color]]

\* The bodies a client posts.  known: ids the client has seen and may send
\* back as the id member.
Bodies(known) ==
    { InvalidJSON,                                                  \* { invalid json }
      NullJSON,                                                     \* null
      ArrayJSON,                                                    \* []
      ObjectJSON(JAbsent, JAbsent, JAbsent, JAbsent),               \* {}
      ObjectJSON(JNumber, JAbsent, JAbsent, JAbsent),               \* {"name": 123}
      ObjectJSON(JString("Toto"), JAbsent, JNull, JString("Grey")), \* {"name":"Toto","birthDate":null,"color":"Grey"}
      ObjectJSON(JAbsent, JAbsent, JString("2023-01-15"), JString("Black")) }
    \cup { ObjectJSON(JString("Felix"), JString(c), JAbsent, JAbsent) :
             c \in ClientIds \cup known }
    \cup { ObjectJSON(JString("Toto"), JAbsent, JAbsent, JString("Grey")) } \* {"name":"Toto","color":"Grey"}

\* encoding/json on one string field: a string sets it, null and an absent
\* member leave the zero value, any other JSON type is an UnmarshalTypeError.
FieldOK(j) == j.t \in {"absent", "null", "string"}
FieldValue(j) == IF j.t = "string" THEN j.s ELSE ""

\* err := decoder.Decode(&catCreationData): [err, cat].
Decode(reqBody) ==
    CASE reqBody.syntax = "invalid" -> [err |-> TRUE, cat |-> ZeroCat]
      [] reqBody.syntax = "array" -> [err |-> TRUE, cat |-> ZeroCat]
      [] reqBody.syntax = "null" -> [err |-> FALSE, cat |-> ZeroCat]
      [] reqBody.syntax = "object" ->
           LET m == reqBody.members IN
           [err |-> ~(FieldOK(m.name) /\ FieldOK(m.id)
                      /\ FieldOK(m.birthDate) /\ FieldOK(m.color)),
            cat |-> Cat(FieldValue(m.name), FieldValue(m.id),
                        FieldValue(m.birthDate), FieldValue(m.color))]

\* A string field tagged omitempty: left out of the object when empty.
OmitEmpty(s) == IF s = "" THEN JAbsent ELSE JString(s)

\* json.Marshal of a Cat whose color carries the tag json:"colour,omitempty":
\* the decoder knows no such member and drops it.
MarshalColourTag(cat) ==
    ObjectJSON(JString(cat.name), OmitEmpty(cat.id), OmitEmpty(cat.birthDate), JAbsent)

\* json.Marshal of a Cat: name is always written, id, birthDate and color
\* only when they are not empty.
Marshal(cat) ==
    ObjectJSON(JString(cat.name), OmitEmpty(cat.id),
               OmitEmpty(cat.birthDate), OmitEmpty(cat.color))

\* The records the JSON tests marshal: every field empty or one of two texts.
SampleCats ==
    {Cat(n, i, b, c) : n \in {"", "Fluffy", "JSONCat"}, i \in {"", "123", "json-test"},
                       b \in {"", "2023-01-01", "2023-05-15"},
                       c \in {"", "White", "Blue"}}

\* No record is being converted.
CodecIdle == [pc |-> "idle", cat |-> ZeroCat, json |-> NullJSON, err |-> FALSE, out |-> ZeroCat]

\* ------------------------------------------------------------------ paths

\* A path is the sequence of its characters.
CatsPrefix == <<"/", "c", "a", "t", "s", "/">>

\* The finite sequences over S of length at most n.
SeqsUpTo(S, n) == UNION {[1..k -> S] : k \in 0..n}

\* The request paths: a leading part that is the prefix, stops short of it or
\* differs from it, followed by at most MaxTail characters.
Paths ==
    {head \o tail :
        head \in {<<>>, <<"/", "c", "a", "t", "s">>, CatsPrefix,
                  <<"/", "d", "o", "g", "s", "/">>, <<"/", "a", "p", "i">> \o CatsPrefix},
        tail \in SeqsUpTo({"1", "a", "/"}, MaxTail)}

\* for i, char := range param { if char == '/' { param = param[:i]; break } }
RECURSIVE UntilSlash(_, _)
UntilSlash(param, i) ==
    IF i > Len(param) THEN param
    ELSE IF param[i] = "/" THEN SubSeq(param, 1, i - 1)
    ELSE UntilSlash(param, i + 1)

\* extractPathParam without the loop that cuts at the next slash.
extractPathParamWholeRest(path, prefix) ==
    IF Len(path) <= Len(prefix) THEN <<>>
    ELSE IF SubSeq(path, 1, Len(prefix)) # prefix THEN <<>>
    ELSE SubSeq(path, Len(prefix) + 1, Len(path))

\* extractPathParam(path, prefix string) string
extractPathParam(path, prefix) ==
    IF Len(path) <= Len(prefix) THEN <<>>
    ELSE IF SubSeq(path, 1, Len(prefix)) # prefix THEN <<>>
    ELSE UntilSlash(SubSeq(path, Len(prefix) + 1, Len(path)), 1)

\* No path is being looked at.
RouteIdle == [pc |-> "idle", path |-> <<>>, param |-> <<>>]

\* ------------------------------------------------------------------ state

VARIABLES
    catsDatabase,   \* the map[string]Cat
    issued,         \* the UUIDs uuid.New() has returned so far
    returned,       \* the ids createCat has returned with status 201
    nCreated,       \* the number of createCat calls that returned 201
    nDeleted,       \* the number of deleteCat calls that returned 204
    live,           \* the keys stored at start or returned by createCat, and
                    \* not deleted by a deleteCat call since
    last,           \* the most recent request and its response
    prev,           \* the request and response before that
    drv,            \* the scripted client: its position and the responses it got
    codec,          \* a Cat on its way through json.Marshal and json.Unmarshal
    route,          \* a request path and the parameter extracted from it
    gor,            \* the goroutines serving requests: position and locals of each
    fatal           \* the runtime has thrown a fatal error: the process is gone

vars == <<catsDatabase, issued, returned, nCreated, nDeleted, live, last, prev,
          drv, codec, route, gor, fatal>>

\* What a client that calls the handlers in any order observes.
observed == <<returned, nCreated, nDeleted, live, last, prev>>

\* The state of the clients and functions that take no part in Spec.
\* The state of the goroutines that serve overlapping requests.
conc == <<gor, fatal>>

idle == <<drv, codec, route, gor, fatal>>

\* What the scripted client leaves alone.
unscripted == <<returned, nCreated, nDeleted, live, last, prev, codec, route, gor, fatal>>

\* A request/response pair: the handler, its inputs (the catId path value,
\* the body), its results, and the store as it was when the handler began.
Call(op, catId, reqBody, status, body, before) ==
    [op |-> op, catId |-> catId, reqBody |-> reqBody,
     status |-> status, body |-> body, before |-> before]

NoBody == [syntax |-> "none"]
NoCall == Call("none", "", NoBody, 0, NilBody, InitialDatabase)

\* A response the scripted client has not got yet.
NoResult == [status |-> 0, body |-> NilBody]

\* The scripted client before its first request.
DrvIdle ==
    [pc |-> "warm", todo |-> <<>>, swept |-> 0, atCreate |-> InitialDatabase,
     reqBody |-> NoBody, create |-> NoResult, list |-> NoResult,
     get |-> NoResult, delete |-> NoResult, final |-> NoResult]

\* ------------------------------------------------------------------ helpers

\* The permutations of a finite set, as sequences.
RECURSIVE Orderings(_)
Orderings(S) ==
    IF S = {} THEN {<<>>}
    ELSE UNION {{<<x>> \o t : t \in Orderings(S \ {x})} : x \in S}

\* delete(aMap, key)
MapDelete(aMap, key) == [k \in DOMAIN aMap \ {key} |-> aMap[k]]

\* aMap[key] = value
MapPut(aMap, key, value) ==
    [k \in DOMAIN aMap \cup {key} |-> IF k = key THEN value ELSE aMap[k]]

\* ------------------------------------------------------------------ handlers

\* uuid.New().String(): a random version 4 UUID; the library's contract is
\* that no value is returned twice.
uuidNew(gen) == UUIDs \ gen

\* listMapKeys with results := make([]string, len(aMap)): the appended keys
\* follow len(aMap) empty strings.
listMapKeysPreallocated(aMap) ==
    {[i \in 1..Cardinality(DOMAIN aMap) |-> ""] \o ids : ids \in Orderings(DOMAIN aMap)}

\* listMapKeys with the return statement inside the loop: the result holds
\* the first key the iteration visits, and nothing when the map is empty.
listMapKeysReturnsInLoop(aMap) ==
    IF DOMAIN aMap = {} THEN {<<>>} ELSE {<<k>> : k \in DOMAIN aMap}

\* for catID := range aMap { results = append(results, catID) }: Go leaves
\* the iteration order of a map unspecified.
listMapKeys(aMap) == Orderings(DOMAIN aMap)

\* listCats over var results []string: an empty store gives a nil slice.
listCatsNilWhenEmpty(db) ==
    IF DOMAIN db = {}
    THEN {[status |-> StatusOK, body |-> NilBody]}
    ELSE {[status |-> StatusOK, body |-> IdsBody(ids)] : ids \in listMapKeys(db)}

\* listCats: the possible (status, body) pairs.
listCats(db) ==
    {[status |-> StatusOK, body |-> IdsBody(ids)] : ids \in listMapKeys(db)}

\* createCat without catCreationData.ID = newCatID.
createCatIDNotSet(db, reqBody, gen) ==
    LET d == Decode(reqBody) IN
    IF d.err
    THEN {[status |-> StatusBadRequest, body |-> StringBody("Invalid JSON input"),
           db |-> db, gen |-> gen]}
    ELSE {[status |-> StatusCreated, body |-> StringBody(newCatID),
           db |-> MapPut(db, newCatID, d.cat),
           gen |-> gen \cup {newCatID}] : newCatID \in uuidNew(gen)}

\* createCat that stores catCreationData before it looks at err.
createCatStoresBeforeErrCheck(db, reqBody, gen) ==
    LET d == Decode(reqBody) IN
    IF d.err
    THEN {[status |-> StatusBadRequest, body |-> StringBody("Invalid JSON input"),
           db |-> MapPut(db, newCatID, [d.cat EXCEPT !.id = newCatID]),
           gen |-> gen \cup {newCatID}] : newCatID \in uuidNew(gen)}
    ELSE {[status |-> StatusCreated, body |-> StringBody(newCatID),
           db |-> MapPut(db, newCatID, [d.cat EXCEPT !.id = newCatID]),
           gen |-> gen \cup {newCatID}] : newCatID \in uuidNew(gen)}

\* createCat that generates an id only when the payload carries none.
createCatKeepsClientID(db, reqBody, gen) ==
    LET d == Decode(reqBody) IN
    IF d.err
    THEN {[status |-> StatusBadRequest, body |-> StringBody("Invalid JSON input"),
           db |-> db, gen |-> gen]}
    ELSE {[status |-> StatusCreated,
           body |-> StringBody(IF d.cat.id = "" THEN newCatID ELSE d.cat.id),
           db |-> MapPut(db, IF d.cat.id = "" THEN newCatID ELSE d.cat.id,
                         [d.cat EXCEPT !.id = IF d.cat.id = "" THEN newCatID ELSE d.cat.id]),
           gen |-> gen \cup {newCatID}] : newCatID \in uuidNew(gen)}

\* createCat with the id taken from a counter, len(catsDatabase)+1, in place
\* of uuid.New().
createCatCounterID(db, reqBody, gen) ==
    LET d == Decode(reqBody)
        newCatID == UUIDSeq[Cardinality(DOMAIN db) + 1]
    IN
    IF d.err
    THEN {[status |-> StatusBadRequest, body |-> StringBody("Invalid JSON input"),
           db |-> db, gen |-> gen]}
    ELSE IF uuidNew(gen) = {} THEN {}
    ELSE {[status |-> StatusCreated, body |-> StringBody(newCatID),
           db |-> MapPut(db, newCatID, [d.cat EXCEPT !.id = newCatID]),
           gen |-> gen \cup {CHOOSE u \in uuidNew(gen) : TRUE}]}

\* createCat with the map write before catCreationData.ID is set, keyed by
\* the payload's ID.
createCatKeyedByPayloadID(db, reqBody, gen) ==
    LET d == Decode(reqBody) IN
    IF d.err
    THEN {[status |-> StatusBadRequest, body |-> StringBody("Invalid JSON input"),
           db |-> db, gen |-> gen]}
    ELSE {[status |-> StatusCreated, body |-> StringBody(newCatID),
           db |-> MapPut(db, d.cat.id, [d.cat EXCEPT !.id = newCatID]),
           gen |-> gen \cup {newCatID}] : newCatID \in uuidNew(gen)}

\* createCat that rejects a payload with an empty name.
createCatRequiresName(db, reqBody, gen) ==
    LET d == Decode(reqBody) IN
    IF d.err \/ d.cat.name = ""
    THEN {[status |-> StatusBadRequest, body |-> StringBody("Invalid JSON input"),
           db |-> db, gen |-> gen]}
    ELSE {[status |-> StatusCreated, body |-> StringBody(newCatID),
           db |-> MapPut(db, newCatID, [d.cat EXCEPT !.id = newCatID]),
           gen |-> gen \cup {newCatID}] : newCatID \in uuidNew(gen)}

\* createCat: the possible outcomes [status, body, db, gen].
createCat(db, reqBody, gen) ==
    LET d == Decode(reqBody) IN
    IF d.err
    THEN {[status |-> StatusBadRequest, body |-> StringBody("Invalid JSON input"),
           db |-> db, gen |-> gen]}
    ELSE {[status |-> StatusCreated, body |-> StringBody(newCatID),
           db |-> MapPut(db, newCatID, [d.cat EXCEPT !.id = newCatID]),
           gen |-> gen \cup {newCatID}] : newCatID \in uuidNew(gen)}

\* getCat with cat := catsDatabase[catID], the found result dropped.
getCatIgnoresFound(db, catID) ==
    [status |-> StatusOK,
     body |-> CatBody(IF catID \in DOMAIN db THEN db[catID] ELSE ZeroCat)]

\* getCat: [status, body].
getCat(db, catID) ==
    IF catID \in DOMAIN db
    THEN [status |-> StatusOK, body |-> CatBody(db[catID])]
    ELSE [status |-> StatusNotFound, body |-> StringBody("Cat not found")]

\* deleteCat without the delete(catsDatabase, catID) statement.
deleteCatKeepsRecord(db, catID) ==
    IF catID \in DOMAIN db
    THEN [status |-> StatusNoContent, body |-> NilBody, db |-> db]
    ELSE [status |-> StatusNotFound, body |-> StringBody("Cat not found"), db |-> db]

\* deleteCat without the lookup: delete() of an absent key is a no-op, and
\* the handler reports success.
deleteCatSilent(db, catID) ==
    [status |-> StatusNoContent, body |-> NilBody, db |-> MapDelete(db, catID)]

\* deleteCat that returns http.StatusOK after the delete.
deleteCatStatusOK(db, catID) ==
    IF catID \in DOMAIN db
    THEN [status |-> StatusOK, body |-> NilBody, db |-> MapDelete(db, catID)]
    ELSE [status |-> StatusNotFound, body |-> StringBody("Cat not found"), db |-> db]

\* deleteCat with catsDatabase = map[string]Cat{} in place of the delete().
deleteCatClearsStore(db, catID) ==
    IF catID \in DOMAIN db
    THEN [status |-> StatusNoContent, body |-> NilBody, db |-> [k \in {} |-> ZeroCat]]
    ELSE [status |-> StatusNotFound, body |-> StringBody("Cat not found"), db |-> db]

\* deleteCat: [status, body, db].
deleteCat(db, catID) ==
    IF catID \in DOMAIN db
    THEN [status |-> StatusNoContent, body |-> NilBody, db |-> MapDelete(db, catID)]
    ELSE [status |-> StatusNotFound, body |-> StringBody("Cat not found"), db |-> db]

\* ------------------------------------------------------------------ actions

\* The goroutines of two requests that are served at the same time.
Goroutines == {"g1", "g2"}

\* A goroutine that serves no request.
GorIdle ==
    [pc |-> "idle", op |-> "none", catID |-> "", reqBody |-> NoBody, cat |-> ZeroCat,
     snap |-> {}, results |-> <<>>, status |-> 0, body |-> NilBody]

\* The bodies and ids of the overlapping requests.
ConcBodies == {InvalidJSON, ObjectJSON(JString("Toto"), JAbsent, JAbsent, JString("Grey"))}
ConcIds == SeedKeys \cup issued

\* g is inside a map read: the lookup catsDatabase[catID] or the range loop.
Reading(g) == gor[g].pc \in {"looking", "ranging"}

\* g is inside a structural mutation: the map assignment or delete().
Writing(g) == gor[g].pc \in {"inserting", "removing"}

\* The elements of a sequence.
Range(seq) == {seq[i] : i \in 1..Len(seq)}

\* The goroutine's handler returns (status, body); its locals go out of scope.
Returned(g, status, body) ==
    [gor EXCEPT ![g] = [GorIdle EXCEPT !.pc = "done", !.op = gor[g].op,
                                       !.catID = gor[g].catID, !.reqBody = gor[g].reqBody,
                                       !.status = status, !.body = body]]

Init ==
    /\ catsDatabase = InitialDatabase
    /\ issued = {}
    /\ returned = {}
    /\ nCreated = 0
    /\ nDeleted = 0
    /\ live = SeedKeys
    /\ last = NoCall
    /\ prev = NoCall
    /\ drv = DrvIdle
    /\ codec = CodecIdle
    /\ route = RouteIdle
    /\ gor = [g \in Goroutines |-> GorIdle]
    /\ fatal = FALSE

ListCats ==
    \E r \in listCats(catsDatabase) :
        /\ last' = Call("listCats", "", NoBody, r.status, r.body, catsDatabase)
        /\ prev' = last
        /\ UNCHANGED <<catsDatabase, issued, returned, nCreated, nDeleted, live>>
        /\ UNCHANGED idle

CreateCat ==
    \E reqBody \in Bodies(returned) :
        \E r \in createCat(catsDatabase, reqBody, issued) :
            /\ catsDatabase' = r.db
            /\ issued' = r.gen
            /\ returned' = IF r.status = StatusCreated
                           THEN returned \cup {r.body.str} ELSE returned
            /\ nCreated' = IF r.status = StatusCreated THEN nCreated + 1 ELSE nCreated
            /\ live' = IF r.status = StatusCreated
                       THEN live \cup {r.body.str} ELSE live
            /\ last' = Call("createCat", "", reqBody, r.status, r.body, catsDatabase)
            /\ prev' = last
            /\ UNCHANGED nDeleted
            /\ UNCHANGED idle

\* getCat with a delete(catsDatabase, catID) on the found path.
GetCatRemovesFound ==
    \E catID \in PathIds :
        LET r == getCat(catsDatabase, catID) IN
        /\ catsDatabase' = MapDelete(catsDatabase, catID)
        /\ last' = Call("getCat", catID, NoBody, r.status, r.body, catsDatabase)
        /\ prev' = last
        /\ UNCHANGED <<issued, returned, nCreated, nDeleted, live>>
        /\ UNCHANGED idle

GetCat ==
    \E catID \in PathIds :
        LET r == getCat(catsDatabase, catID) IN
        /\ last' = Call("getCat", catID, NoBody, r.status, r.body, catsDatabase)
        /\ prev' = last
        /\ UNCHANGED <<catsDatabase, issued, returned, nCreated, nDeleted, live>>
        /\ UNCHANGED idle

DeleteCat ==
    \E catID \in PathIds :
        LET r == deleteCat(catsDatabase, catID) IN
        /\ catsDatabase' = r.db
        /\ nDeleted' = IF r.status = StatusNoContent THEN nDeleted + 1 ELSE nDeleted
        /\ live' = IF r.status = StatusNoContent THEN live \ {catID} ELSE live
        /\ last' = Call("deleteCat", catID, NoBody, r.status, r.body, catsDatabase)
        /\ prev' = last
        /\ UNCHANGED <<issued, returned, nCreated>>
        /\ UNCHANGED idle

Next == ListCats \/ CreateCat \/ GetCat \/ DeleteCat

Spec == Init /\ [][Next]_vars

\* ------------------------------------------------------------------ scripted client

(***************************************************************************)
(* The client of the API tests (test/apitests/all_test.go: init,           *)
(* TestGetCats, TestGetCat, TestCRUDWorkflow): on a store in any reachable *)
(* state it lists the cats, deletes every listed id, creates one cat,      *)
(* lists again, reads the new cat or not, deletes it and reads it once     *)
(* more.  drv keeps every response.                                        *)
(***************************************************************************)

Result(r) == [status |-> r.status, body |-> r.body]

\* Requests before the script starts: they bring the store to any state.
WarmCreate ==
    /\ drv.pc = "warm"
    /\ \E reqBody \in Bodies(issued) :
          \E r \in createCat(catsDatabase, reqBody, issued) :
              /\ catsDatabase' = r.db
              /\ issued' = r.gen
    /\ UNCHANGED <<unscripted, drv>>

WarmDelete ==
    /\ drv.pc = "warm"
    /\ \E catID \in PathIds : catsDatabase' = deleteCat(catsDatabase, catID).db
    /\ UNCHANGED <<issued, unscripted, drv>>

\* ids := []string{}; call("GET", "/cats", nil, nil, &ids)
DrvListAll ==
    /\ drv.pc = "warm"
    /\ \E r \in listCats(catsDatabase) :
          drv' = [drv EXCEPT !.pc = "sweep", !.todo = r.body.ids]
    /\ UNCHANGED <<catsDatabase, issued, unscripted>>

\* for _, id := range ids { call("DELETE", "/cats/"+id, nil, &code, nil) }
DrvSweep ==
    /\ drv.pc = "sweep" /\ drv.todo # <<>>
    /\ LET r == deleteCat(catsDatabase, Head(drv.todo)) IN
       /\ catsDatabase' = r.db
       /\ drv' = [drv EXCEPT !.todo = Tail(@),
                             !.swept = IF r.status = StatusNoContent THEN @ + 1 ELSE @]
    /\ UNCHANGED <<issued, unscripted>>

\* call("POST", "/cats", newCat, &createCode, &catId); the tests stop when
\* the status is not 201.
DrvCreate ==
    /\ drv.pc = "sweep" /\ drv.todo = <<>>
    /\ \E reqBody \in Bodies(issued) :
          \E r \in createCat(catsDatabase, reqBody, issued) :
              /\ catsDatabase' = r.db
              /\ issued' = r.gen
              /\ drv' = [drv EXCEPT
                           !.pc = IF r.status = StatusCreated THEN "created" ELSE "done",
                           !.atCreate = catsDatabase,
                           !.reqBody = reqBody,
                           !.create = Result(r)]
    /\ UNCHANGED unscripted

\* call("GET", "/cats", nil, &listCode, &catIds)
DrvList ==
    /\ drv.pc = "created"
    /\ \E r \in listCats(catsDatabase) :
          drv' = [drv EXCEPT !.pc = "listed", !.list = Result(r)]
    /\ UNCHANGED <<catsDatabase, issued, unscripted>>

\* call("GET", "/cats/"+catId, nil, &readCode, &retrievedCat)
DrvGet ==
    /\ drv.pc = "listed"
    /\ drv' = [drv EXCEPT !.pc = "read",
                          !.get = Result(getCat(catsDatabase, drv.create.body.str))]
    /\ UNCHANGED <<catsDatabase, issued, unscripted>>

\* call("DELETE", "/cats/"+catId, nil, &deleteCode, nil)
DrvDelete ==
    /\ drv.pc \in {"listed", "read"}
    /\ LET r == deleteCat(catsDatabase, drv.create.body.str) IN
       /\ catsDatabase' = r.db
       /\ drv' = [drv EXCEPT !.pc = "deleted", !.delete = Result(r)]
    /\ UNCHANGED <<issued, unscripted>>

\* call("GET", "/cats/"+catId, nil, &verifyCode, nil)
DrvVerify ==
    /\ drv.pc = "deleted"
    /\ drv' = [drv EXCEPT !.pc = "done",
                          !.final = Result(getCat(catsDatabase, drv.create.body.str))]
    /\ UNCHANGED <<catsDatabase, issued, unscripted>>

ScriptNext ==
    \/ WarmCreate \/ WarmDelete
    \/ DrvListAll \/ DrvSweep \/ DrvCreate \/ DrvList \/ DrvGet \/ DrvDelete \/ DrvVerify

ScriptSpec == Init /\ [][ScriptNext]_vars

\* ------------------------------------------------------------------ JSON round trip

\* jsonData, err := json.Marshal(originalCat)
CodecMarshal ==
    /\ codec.pc = "idle"
    /\ \E cat \in SampleCats :
          codec' = [codec EXCEPT !.pc = "encoded", !.cat = cat, !.json = Marshal(cat)]
    /\ UNCHANGED <<catsDatabase, issued, observed, drv, route, conc>>

\* err = json.Unmarshal(jsonData, &unmarshaled)
CodecUnmarshal ==
    /\ codec.pc = "encoded"
    /\ codec' = [codec EXCEPT !.pc = "decoded",
                              !.err = Decode(codec.json).err,
                              !.out = Decode(codec.json).cat]
    /\ UNCHANGED <<catsDatabase, issued, observed, drv, route, conc>>

CodecNext == CodecMarshal \/ CodecUnmarshal

CodecSpec == Init /\ [][CodecNext]_vars

\* ------------------------------------------------------------------ path parameter

\* param := extractPathParam(test.path, "/cats/")
RouteExtract ==
    /\ route.pc = "idle"
    /\ \E path \in Paths :
          route' = [pc |-> "done", path |-> path,
                    param |-> extractPathParam(path, CatsPrefix)]
    /\ UNCHANGED <<catsDatabase, issued, observed, drv, codec, conc>>

\* The next test case starts from the result of the last.
RouteReset ==
    /\ route.pc = "done"
    /\ route' = RouteIdle
    /\ UNCHANGED <<catsDatabase, issued, observed, drv, codec, conc>>

RouteNext == RouteExtract \/ RouteReset

RouteSpec == Init /\ [][RouteNext]_vars

\* ------------------------------------------------------------------ overlapping requests

\* One handler invocation per request, on a goroutine of its own.
Serve ==
    /\ ~fatal
    /\ \E g \in Goroutines :
          /\ gor[g].pc \in {"idle", "done"}
          /\ \/ gor' = [gor EXCEPT ![g] = [GorIdle EXCEPT !.pc = "called", !.op = "listCats"]]
             \/ \E reqBody \in ConcBodies :
                   /\ Cardinality(issued)
                        + Cardinality({h \in Goroutines : gor[h].op = "createCat"
                                                          /\ gor[h].pc = "called"})
                        < MaxUUIDs
                   /\ gor' = [gor EXCEPT ![g] = [GorIdle EXCEPT !.pc = "called",
                                                    !.op = "createCat", !.reqBody = reqBody]]
             \/ \E op \in {"getCat", "deleteCat"}, catID \in ConcIds :
                   gor' = [gor EXCEPT ![g] = [GorIdle EXCEPT !.pc = "called",
                                                    !.op = op, !.catID = catID]]
    /\ UNCHANGED <<catsDatabase, issued, observed, drv, codec, route, fatal>>

\* createCat up to catCreationData.ID = newCatID
CreateDecode ==
    /\ ~fatal
    /\ \E g \in Goroutines :
          /\ gor[g].pc = "called" /\ gor[g].op = "createCat"
          /\ LET d == Decode(gor[g].reqBody) IN
             IF d.err
             THEN /\ gor' = Returned(g, StatusBadRequest, StringBody("Invalid JSON input"))
                  /\ UNCHANGED issued
             ELSE \E newCatID \in uuidNew(issued) :
                     /\ issued' = issued \cup {newCatID}
                     /\ gor' = [gor EXCEPT ![g].pc = "insert",
                                           ![g].cat = [d.cat EXCEPT !.id = newCatID]]
    /\ UNCHANGED <<catsDatabase, observed, drv, codec, route, fatal>>

\* catsDatabase[newCatID] = catCreationData: the assignment starts
CreateInsertBegin ==
    /\ ~fatal
    /\ \E g \in Goroutines :
          /\ gor[g].pc = "insert"
          /\ gor' = [gor EXCEPT ![g].pc = "inserting"]
    /\ UNCHANGED <<catsDatabase, issued, observed, drv, codec, route, fatal>>

\* catsDatabase[newCatID] = catCreationData: the entry is in the map
CreateInsertEnd ==
    /\ ~fatal
    /\ \E g \in Goroutines :
          /\ gor[g].pc = "inserting"
          /\ catsDatabase' = MapPut(catsDatabase, gor[g].cat.id, gor[g].cat)
          /\ gor' = Returned(g, StatusCreated, StringBody(gor[g].cat.id))
    /\ UNCHANGED <<issued, observed, drv, codec, route, fatal>>

\* getCat, deleteCat: the lookup catsDatabase[catID] starts
LookupBegin ==
    /\ ~fatal
    /\ \E g \in Goroutines :
          /\ gor[g].pc = "called" /\ gor[g].op \in {"getCat", "deleteCat"}
          /\ gor' = [gor EXCEPT ![g].pc = "looking"]
    /\ UNCHANGED <<catsDatabase, issued, observed, drv, codec, route, fatal>>

\* getCat: cat, found := catsDatabase[catID] and the return that follows
GetLookupEnd ==
    /\ ~fatal
    /\ \E g \in Goroutines :
          /\ gor[g].pc = "looking" /\ gor[g].op = "getCat"
          /\ LET r == getCat(catsDatabase, gor[g].catID) IN
             gor' = Returned(g, r.status, r.body)
    /\ UNCHANGED <<catsDatabase, issued, observed, drv, codec, route, fatal>>

\* deleteCat: _, found := catsDatabase[catID]
DeleteLookupEnd ==
    /\ ~fatal
    /\ \E g \in Goroutines :
          /\ gor[g].pc = "looking" /\ gor[g].op = "deleteCat"
          /\ gor' = IF gor[g].catID \in DOMAIN catsDatabase
                    THEN [gor EXCEPT ![g].pc = "remove"]
                    ELSE Returned(g, StatusNotFound, StringBody("Cat not found"))
    /\ UNCHANGED <<catsDatabase, issued, observed, drv, codec, route, fatal>>

\* delete(catsDatabase, catID): the removal starts
DeleteRemoveBegin ==
    /\ ~fatal
    /\ \E g \in Goroutines :
          /\ gor[g].pc = "remove"
          /\ gor' = [gor EXCEPT ![g].pc = "removing"]
    /\ UNCHANGED <<catsDatabase, issued, observed, drv, codec, route, fatal>>

\* delete(catsDatabase, catID): the entry is gone
DeleteRemoveEnd ==
    /\ ~fatal
    /\ \E g \in Goroutines :
          /\ gor[g].pc = "removing"
          /\ catsDatabase' = MapDelete(catsDatabase, gor[g].catID)
          /\ gor' = Returned(g, StatusNoContent, NilBody)
    /\ UNCHANGED <<issued, observed, drv, codec, route, fatal>>

\* listMapKeys: results := []string{} and the start of the range loop
ListRangeBegin ==
    /\ ~fatal
    /\ \E g \in Goroutines :
          /\ gor[g].pc = "called" /\ gor[g].op = "listCats"
          /\ gor' = [gor EXCEPT ![g].pc = "ranging", ![g].snap = DOMAIN catsDatabase]
    /\ UNCHANGED <<catsDatabase, issued, observed, drv, codec, route, fatal>>

\* listMapKeys: one iteration, results = append(results, catID)
ListRangeNext ==
    /\ ~fatal
    /\ \E g \in Goroutines :
          /\ gor[g].pc = "ranging"
          /\ \E catID \in DOMAIN catsDatabase \ Range(gor[g].results) :
                gor' = [gor EXCEPT ![g].results = Append(gor[g].results, catID)]
    /\ UNCHANGED <<catsDatabase, issued, observed, drv, codec, route, fatal>>

\* listMapKeys: the loop ends.  An entry removed before it was reached is not
\* produced; an entry created during the loop may have been skipped.
ListRangeEnd ==
    /\ ~fatal
    /\ \E g \in Goroutines :
          /\ gor[g].pc = "ranging"
          /\ (gor[g].snap \cap DOMAIN catsDatabase) \subseteq Range(gor[g].results)
          /\ gor' = Returned(g, StatusOK, IdsBody(gor[g].results))
    /\ UNCHANGED <<catsDatabase, issued, observed, drv, codec, route, fatal>>

\* A map write that overlaps another access of the map is a data race: the
\* runtime may detect it and end the process (fatal error: concurrent map
\* writes, concurrent map read and map write), or may not.
Throw ==
    /\ ~fatal
    /\ \E g \in Goroutines, h \in Goroutines :
          g # h /\ Writing(g) /\ (Reading(h) \/ Writing(h))
    /\ fatal' = TRUE
    /\ UNCHANGED <<catsDatabase, issued, observed, drv, codec, route, gor>>

ConcNext ==
    \/ Serve \/ CreateDecode \/ CreateInsertBegin \/ CreateInsertEnd
    \/ LookupBegin \/ GetLookupEnd \/ DeleteLookupEnd
    \/ DeleteRemoveBegin \/ DeleteRemoveEnd
    \/ ListRangeBegin \/ ListRangeNext \/ ListRangeEnd
    \/ Throw

ConcSpec == Init /\ [][ConcNext]_vars

\* A step of goroutine g's handler: the scheduler runs g.
StepOf(g) ==
    /\ \/ CreateDecode \/ CreateInsertBegin \/ CreateInsertEnd
       \/ LookupBegin \/ GetLookupEnd \/ DeleteLookupEnd
       \/ DeleteRemoveBegin \/ DeleteRemoveEnd
       \/ ListRangeBegin \/ ListRangeNext \/ ListRangeEnd
    /\ gor'[g] # gor[g]

\* The Go scheduler leaves no runnable goroutine waiting for ever.
FairConcSpec == ConcSpec /\ \A g \in Goroutines : WF_vars(StepOf(g))

\* ------------------------------------------------------------------ two requests at once

\* The bodies of two createCat requests that decode.
PairBodies ==
    {ObjectJSON(JString("Toto"), JAbsent, JAbsent, JString("Grey")),
     ObjectJSON(JAbsent, JAbsent, JString("2023-01-15"), JString("Black"))}

\* Two deleteCat requests for one present id arrive together.
ServeDeletes ==
    /\ ~fatal
    /\ \A g \in Goroutines : gor[g].pc \in {"idle", "done"}
    /\ \E catID \in DOMAIN catsDatabase :
          gor' = [g \in Goroutines |->
                    [GorIdle EXCEPT !.pc = "called", !.op = "deleteCat", !.catID = catID]]
    /\ UNCHANGED <<catsDatabase, issued, observed, drv, codec, route, fatal>>

\* Two createCat requests with bodies that decode arrive together.
ServeCreates ==
    /\ ~fatal
    /\ \A g \in Goroutines : gor[g].pc \in {"idle", "done"}
    /\ Cardinality(issued) + Cardinality(Goroutines) <= MaxUUIDs
    /\ \E reqBodies \in [Goroutines -> PairBodies] :
          gor' = [g \in Goroutines |->
                    [GorIdle EXCEPT !.pc = "called", !.op = "createCat",
                                    !.reqBody = reqBodies[g]]]
    /\ UNCHANGED <<catsDatabase, issued, observed, drv, codec, route, fatal>>

PairNext ==
    \/ ServeDeletes \/ ServeCreates
    \/ CreateDecode \/ CreateInsertBegin \/ CreateInsertEnd
    \/ LookupBegin \/ DeleteLookupEnd \/ DeleteRemoveBegin \/ DeleteRemoveEnd
    \/ Throw

PairSpec == Init /\ [][PairNext]_vars

FairPairSpec == PairSpec /\ \A g \in Goroutines : WF_vars(StepOf(g))

\* ------------------------------------------------------------------ claims

NotFound == [status |-> StatusNotFound, body |-> StringBody("Cat not found")]

\* The record createCat is to store for a body that decodes: the decoded
\* fields with the id replaced by the returned one.
Stored(reqBody, id) ==
    LET P == Decode(reqBody).cat IN Cat(P.name, id, P.birthDate, P.color)

\* C1: a createCat whose body decodes as a record P returns 201 and a
\* non-empty string id, the store then holds a record under that id, and a
\* getCat(id) right after it returns 200 with P's name, birthDate and color
\* and with the returned id.
C1_CreateThenGet ==
    /\ (last.op = "createCat" /\ ~Decode(last.reqBody).err) =>
          /\ last.status = StatusCreated
          /\ last.body.type = "string"
          /\ last.body.str # ""
          /\ last.body.str \in DOMAIN catsDatabase
          /\ getCat(catsDatabase, last.body.str) =
               [status |-> StatusOK,
                body |-> CatBody(Stored(last.reqBody, last.body.str))]
    /\ (/\ prev.op = "createCat" /\ ~Decode(prev.reqBody).err
        /\ last.op = "getCat" /\ last.catId = prev.body.str) =>
          /\ last.status = StatusOK
          /\ last.body = CatBody(Stored(prev.reqBody, prev.body.str))

C1_Witness ==
    /\ prev.op = "createCat" /\ prev.status = StatusCreated
    /\ prev.reqBody.syntax = "object" /\ prev.reqBody.members.color.t = "string"
    /\ DOMAIN prev.before # {}
    /\ last.op = "getCat" /\ last.catId = prev.body.str /\ last.status = StatusOK

\* C2: a createCat whose body does not decode returns 400 with the body
\* "Invalid JSON input" and leaves the store as it was.
C2_DecodeFailure ==
    (last.op = "createCat" /\ Decode(last.reqBody).err) =>
        /\ last.status = StatusBadRequest
        /\ last.body = StringBody("Invalid JSON input")
        /\ catsDatabase = last.before

C2_Witness ==
    /\ last.op = "createCat" /\ last.reqBody = InvalidJSON
    /\ last.status = StatusBadRequest
    /\ nCreated > 0 /\ uuidNew(issued) # {}

\* C3: getCat(id) returns 200 with the stored record exactly when id is a
\* key of the store, and 404 "Cat not found" otherwise.
C3_GetFoundIffKey ==
    last.op = "getCat" =>
        IF last.catId \in DOMAIN last.before
        THEN last.status = StatusOK /\ last.body = CatBody(last.before[last.catId])
        ELSE last.status = StatusNotFound /\ last.body = StringBody("Cat not found")

C3_Witness ==
    /\ prev.op = "getCat" /\ prev.status = StatusNotFound
    /\ last.op = "getCat" /\ last.status = StatusOK /\ last.catId \in UUIDs

\* C4: deleteCat(id) on a key of the store returns 204 with a nil body, and
\* then id is no key of the store and getCat(id) returns 404.
C4_DeletePresent ==
    /\ (last.op = "deleteCat" /\ last.catId \in DOMAIN last.before) =>
          /\ last.status = StatusNoContent
          /\ last.body = NilBody
          /\ last.catId \notin DOMAIN catsDatabase
          /\ getCat(catsDatabase, last.catId) = NotFound
    /\ (/\ prev.op = "deleteCat" /\ prev.catId \in DOMAIN prev.before
        /\ last.op = "getCat" /\ last.catId = prev.catId) =>
          /\ last.status = StatusNotFound
          /\ last.body = StringBody("Cat not found")

C4_Witness ==
    /\ prev.op = "deleteCat" /\ prev.catId \in DOMAIN prev.before
    /\ prev.catId \in UUIDs
    /\ last.op = "getCat" /\ last.catId = prev.catId

\* C5: deleteCat(id) on an id that is no key of the store returns 404 "Cat
\* not found" and leaves the store as it was.
C5_DeleteAbsent ==
    (last.op = "deleteCat" /\ last.catId \notin DOMAIN last.before) =>
        /\ last.status = StatusNotFound
        /\ last.body = StringBody("Cat not found")
        /\ catsDatabase = last.before

C5_Witness ==
    /\ last.op = "deleteCat" /\ last.catId \notin DOMAIN last.before
    /\ DOMAIN catsDatabase # {} /\ nCreated > 0

\* C6: of two deleteCat calls in a row on one id, both return 404 when the
\* id was absent, and the first returns 204 and the second 404 when it was
\* present.
C6_DeleteTwice ==
    (/\ prev.op = "deleteCat" /\ last.op = "deleteCat"
     /\ prev.catId = last.catId) =>
        IF prev.catId \in DOMAIN prev.before
        THEN prev.status = StatusNoContent /\ last.status = StatusNotFound
        ELSE prev.status = StatusNotFound /\ last.status = StatusNotFound

C6_Witness ==
    /\ prev.op = "deleteCat" /\ last.op = "deleteCat"
    /\ prev.catId = last.catId
    /\ prev.status = StatusNoContent /\ last.status = StatusNotFound

C6_WitnessAbsent ==
    /\ prev.op = "deleteCat" /\ last.op = "deleteCat"
    /\ prev.catId = last.catId
    /\ prev.status = StatusNotFound /\ last.status = StatusNotFound

\* The identifiers a listCats response carries.
Listed == {last.body.ids[i] : i \in 1..Len(last.body.ids)}

\* C7 as stated: after N successful creates and M successful deletes, M <= N,
\* listCats returns exactly N-M identifiers, each of them returned by an
\* earlier createCat call and not deleted since.
C7_ListCountsCreatesOnly ==
    (last.op = "listCats" /\ nDeleted <= nCreated) =>
        /\ Len(last.body.ids) + nDeleted = nCreated
        /\ \A id \in Listed : id \in returned /\ id \in live

\* C7, amended: the store starts with its seed record, so listCats returns
\* exactly |seed| + N - M identifiers, all different, each of them a key of
\* the initial store or returned by an earlier createCat call, and not
\* deleted since.
C7_ListCountsSeedAndCreates ==
    last.op = "listCats" =>
        /\ Len(last.body.ids) + nDeleted = Cardinality(SeedKeys) + nCreated
        /\ Cardinality(Listed) = Len(last.body.ids)
        /\ \A id \in Listed : id \in (SeedKeys \cup returned) /\ id \in live

C7_Witness ==
    /\ last.op = "listCats"
    /\ nCreated = 2 /\ nDeleted = 1
    /\ Len(last.body.ids) = 2

\* C8 as stated: getCat and deleteCat return 404 "Cat not found" for every
\* id that no createCat call returned.
C8_UnreturnedIdNotFound ==
    (last.op \in {"getCat", "deleteCat"} /\ last.catId \notin returned) =>
        last.status = StatusNotFound /\ last.body = StringBody("Cat not found")

\* C8, amended: getCat and deleteCat return 404 "Cat not found" for every id
\* that no createCat call returned and that is no key of the initial store.
C8_UnreturnedUnseededIdNotFound ==
    /\ (/\ last.op \in {"getCat", "deleteCat"}
        /\ last.catId \notin (returned \cup SeedKeys)) =>
          last.status = StatusNotFound /\ last.body = StringBody("Cat not found")
    /\ \A id \in PathIds \ (returned \cup SeedKeys) :
          /\ getCat(catsDatabase, id) = NotFound
          /\ deleteCat(catsDatabase, id).status = StatusNotFound
          /\ deleteCat(catsDatabase, id).body = StringBody("Cat not found")

C8_Witness ==
    /\ last.op = "deleteCat" /\ last.catId = "test-cat-id-123"
    /\ prev.op = "createCat" /\ prev.status = StatusCreated
    /\ prev.reqBody.syntax = "object" /\ prev.reqBody.members.id = JString("test-cat-id-123")

\* aMap is bMap restricted to aMap's keys.
SubMap(aMap, bMap) ==
    /\ DOMAIN aMap \subseteq DOMAIN bMap
    /\ \A k \in DOMAIN aMap : aMap[k] = bMap[k]

\* C9: the id createCat assigns is no key of the store at that moment and
\* was assigned by no earlier createCat, deleted or not: a create overwrites
\* no record and no two creates return the same id.
C9_FreshId ==
    /\ (last.op = "createCat" /\ last.status = StatusCreated) =>
          /\ last.body.str \notin DOMAIN last.before
          /\ SubMap(last.before, catsDatabase)
    /\ (/\ last.op = "createCat" /\ last.status = StatusCreated
        /\ prev.op = "createCat" /\ prev.status = StatusCreated) =>
          last.body.str # prev.body.str
    /\ Cardinality(returned) = nCreated

C9_Witness ==
    /\ last.op = "createCat" /\ last.status = StatusCreated
    /\ nCreated = 2 /\ nDeleted = 2
    /\ DOMAIN last.before = {}

\* C10: createCat ignores an id the payload carries: the store key and the
\* stored record's id are the generated id, not the client's value, and the
\* call stores nothing under the client's value.
C10_ClientIdIgnored ==
    (/\ last.op = "createCat" /\ last.status = StatusCreated
     /\ last.reqBody.syntax = "object" /\ last.reqBody.members.id.t = "string") =>
        LET c == last.reqBody.members.id.s
            k == last.body.str
        IN  /\ k # c
            /\ k \in UUIDs
            /\ DOMAIN catsDatabase = DOMAIN last.before \cup {k}
            /\ catsDatabase[k].id = k
            /\ c \in DOMAIN catsDatabase <=> c \in DOMAIN last.before
            /\ c \in DOMAIN last.before => catsDatabase[c] = last.before[c]

C10_Witness ==
    /\ last.op = "createCat" /\ last.status = StatusCreated
    /\ last.reqBody.syntax = "object"
    /\ last.reqBody.members.id = JString("test-cat-id-123")

C10_WitnessKnownId ==
    /\ last.op = "createCat" /\ last.status = StatusCreated
    /\ last.reqBody.syntax = "object"
    /\ last.reqBody.members.id.t = "string"
    /\ last.reqBody.members.id.s \in returned
    /\ last.reqBody.members.id.s \notin DOMAIN catsDatabase

\* C12: listCats returns 200 and a list that holds every key of the store
\* exactly once and nothing else; an empty store gives an empty list, not
\* nil; the order is not fixed.
C12_ListIsKeySet ==
    last.op = "listCats" =>
        /\ last.status = StatusOK
        /\ last.body.type = "[]string"
        /\ Len(last.body.ids) = Cardinality(DOMAIN last.before)
        /\ Listed = DOMAIN last.before
        /\ last.before = catsDatabase

C12_Witness ==
    /\ prev.op = "listCats" /\ last.op = "listCats"
    /\ Len(last.body.ids) = 2 /\ Len(prev.body.ids) = 2
    /\ last.body.ids = <<prev.body.ids[2], prev.body.ids[1]>>

C12_WitnessEmpty ==
    /\ last.op = "listCats" /\ last.body = IdsBody(<<>>)

\* C13: each handler returns only its own statuses (listCats 200; createCat
\* 201 or 400; getCat 200 or 404; deleteCat 204 or 404), and the body is nil
\* exactly for 204, "Invalid JSON input" exactly for 400 and "Cat not found"
\* exactly for 404.
C13_StatusAndBody ==
    last.op # "none" =>
        /\ last.op = "listCats" => last.status = StatusOK
        /\ last.op = "createCat" => last.status \in {StatusCreated, StatusBadRequest}
        /\ last.op = "getCat" => last.status \in {StatusOK, StatusNotFound}
        /\ last.op = "deleteCat" => last.status \in {StatusNoContent, StatusNotFound}
        /\ last.body = NilBody <=> last.status = StatusNoContent
        /\ last.body = StringBody("Invalid JSON input") <=> last.status = StatusBadRequest
        /\ last.body = StringBody("Cat not found") <=> last.status = StatusNotFound
        /\ last.status = StatusCreated => last.body.type = "string"
        /\ (last.status = StatusOK /\ last.op = "getCat") => last.body.type = "Cat"
        /\ (last.status = StatusOK /\ last.op = "listCats") => last.body.type = "[]string"

C13_Witness ==
    /\ prev.op = "deleteCat" /\ prev.status = StatusNoContent
    /\ last.op = "createCat" /\ last.status = StatusBadRequest

\* C16: getCat and deleteCat with the empty id return 404 "Cat not found":
\* the empty string is never a key of the store.
C16_EmptyIdNotFound ==
    /\ "" \notin DOMAIN catsDatabase
    /\ getCat(catsDatabase, "") = NotFound
    /\ deleteCat(catsDatabase, "").status = StatusNotFound
    /\ deleteCat(catsDatabase, "").body = StringBody("Cat not found")
    /\ (last.op \in {"getCat", "deleteCat"} /\ last.catId = "") =>
          last.status = StatusNotFound /\ last.body = StringBody("Cat not found")

C16_Witness ==
    /\ last.op = "deleteCat" /\ last.catId = ""
    /\ prev.op = "createCat" /\ prev.status = StatusCreated
    /\ prev.reqBody = ObjectJSON(JAbsent, JAbsent, JAbsent, JAbsent)

\* C19: createCat validates no field: every body that decodes, the empty
\* object and a record without name included, is stored with status 201,
\* and 400 is returned only when the body does not decode.
C19_NoValidation ==
    last.op = "createCat" =>
        /\ last.status = StatusBadRequest <=> Decode(last.reqBody).err
        /\ last.status = StatusCreated <=> ~Decode(last.reqBody).err
        /\ ~Decode(last.reqBody).err =>
              /\ last.body.str \in DOMAIN catsDatabase
              /\ catsDatabase[last.body.str] = Stored(last.reqBody, last.body.str)

C19_Witness ==
    /\ last.op = "createCat" /\ last.status = StatusCreated
    /\ last.reqBody = ObjectJSON(JAbsent, JAbsent, JAbsent, JAbsent)
    /\ catsDatabase[last.body.str].name = ""
    /\ prev.op = "createCat" /\ prev.status = StatusCreated
    /\ prev.reqBody = ObjectJSON(JAbsent, JAbsent, JString("2023-01-15"), JString("Black"))

\* The identifiers of a []string body.
IdsOf(body) == {body.ids[i] : i \in 1..Len(body.ids)}

\* C18 as stated: every handler is deterministic, createCat included: any
\* two runs on the same request from the same store state end with the same
\* status, the same body and the same store.
C18_Deterministic ==
    /\ \A reqBody \in Bodies(returned) :
          \A o1, o2 \in createCat(catsDatabase, reqBody, issued) : o1 = o2
    /\ \A o1, o2 \in listCats(catsDatabase) : o1 = o2
    /\ \A catID \in PathIds :
          /\ \A o1, o2 \in {getCat(catsDatabase, catID)} : o1 = o2
          /\ \A o1, o2 \in {deleteCat(catsDatabase, catID)} : o1 = o2

\* C18, amended: getCat and deleteCat are deterministic, and so is createCat
\* on a body that does not decode.  Two runs of createCat on a body that
\* decodes both return 201, each with the id it generated, and leave stores
\* that differ in nothing but the new record's key and id.  Two runs of
\* listCats return 200 and the same identifiers, in orders that may differ.
C18_DeterministicUpToIdAndOrder ==
    /\ \A reqBody \in Bodies(returned) :
          LET runs == createCat(catsDatabase, reqBody, issued) IN
          /\ \A o1, o2 \in runs : o1.body = o2.body => o1 = o2
          /\ runs # {} =>
                LET o1 == CHOOSE o \in runs : TRUE IN
                \A o2 \in runs :
                    /\ o1.status = o2.status
                    /\ o1.status = StatusBadRequest => o1 = o2
                    /\ o1.status = StatusCreated =>
                          /\ MapDelete(o1.db, o1.body.str) = MapDelete(o2.db, o2.body.str)
                          /\ [o1.db[o1.body.str] EXCEPT !.id = ""] =
                               [o2.db[o2.body.str] EXCEPT !.id = ""]
                          /\ o2.db[o2.body.str].id = o2.body.str
    /\ LET runs == listCats(catsDatabase)
           o1 == CHOOSE o \in runs : TRUE
       IN  \A o2 \in runs :
              /\ o1.status = o2.status
              /\ Len(o1.body.ids) = Len(o2.body.ids)
              /\ IdsOf(o1.body) = IdsOf(o2.body)
    /\ (/\ prev.op = last.op /\ last.op \in {"getCat", "deleteCat"}
        /\ prev.catId = last.catId /\ prev.before = last.before) =>
          /\ prev.status = last.status
          /\ prev.body = last.body
          /\ catsDatabase = last.before

C18_Witness ==
    /\ prev.op = "getCat" /\ last.op = "getCat"
    /\ prev.catId = last.catId /\ last.status = StatusOK
    /\ \E reqBody \in Bodies(returned) :
          Cardinality(createCat(catsDatabase, reqBody, issued)) = 2

C18_WitnessOrder ==
    /\ prev.op = "deleteCat" /\ last.op = "deleteCat"
    /\ prev.catId = last.catId /\ prev.before = last.before
    /\ Cardinality(listCats(catsDatabase)) = 2

\* C11: on an empty store, create({"name":"Toto","color":"Grey"}), list,
\* delete(id), get(id) give 201 with a non-empty id, 200 with the list of
\* exactly that id, 204, and 404 "Cat not found".
C11_Scenario ==
    (/\ drv.create # NoResult /\ DOMAIN drv.atCreate = {}
     /\ drv.reqBody = ObjectJSON(JString("Toto"), JAbsent, JAbsent, JString("Grey"))) =>
        /\ drv.create.status = StatusCreated
        /\ drv.create.body.type = "string"
        /\ drv.create.body.str # ""
        /\ drv.list # NoResult =>
              drv.list = [status |-> StatusOK, body |-> IdsBody(<<drv.create.body.str>>)]
        /\ drv.delete # NoResult =>
              drv.delete = [status |-> StatusNoContent, body |-> NilBody]
        /\ drv.final # NoResult => drv.final = NotFound
        /\ drv.pc = "done" => drv.list # NoResult /\ drv.delete # NoResult /\ drv.final # NoResult

C11_Witness ==
    /\ drv.pc = "done" /\ DOMAIN drv.atCreate = {}
    /\ drv.reqBody = ObjectJSON(JString("Toto"), JAbsent, JAbsent, JString("Grey"))
    /\ drv.get = NoResult
    /\ drv.final = NotFound

\* C20: from any reachable store, deleting every id of one listCats response
\* leaves the store empty; one createCat after that makes listCats return
\* the list of exactly the new id, and getCat on it returns a record whose
\* id is that id.
C20_SweepThenCreate ==
    /\ (drv.pc = "sweep" /\ drv.todo = <<>>) => DOMAIN catsDatabase = {}
    /\ drv.create # NoResult => DOMAIN drv.atCreate = {}
    /\ drv.list # NoResult =>
          drv.list = [status |-> StatusOK, body |-> IdsBody(<<drv.create.body.str>>)]
    /\ drv.get # NoResult =>
          /\ drv.get.status = StatusOK
          /\ drv.get.body.type = "Cat"
          /\ drv.get.body.cat.id = drv.create.body.str

C20_Witness ==
    /\ drv.pc = "read" /\ drv.swept = 2
    /\ drv.get.status = StatusOK

C20_WitnessSeed ==
    /\ drv.pc = "read" /\ drv.swept = 1 /\ issued = {drv.create.body.str}

\* C14: encoding a record to JSON and decoding the result gives a record
\* equal in name, id, birthDate and color, also when id, birthDate or color
\* are empty: these are left out of the encoded form and decode to empty.
C14_RoundTrip ==
    /\ codec.pc \in {"encoded", "decoded"} =>
          /\ codec.json.syntax = "object"
          /\ codec.json.members.name = JString(codec.cat.name)
          /\ codec.json.members.id.t = "absent" <=> codec.cat.id = ""
          /\ codec.json.members.birthDate.t = "absent" <=> codec.cat.birthDate = ""
          /\ codec.json.members.color.t = "absent" <=> codec.cat.color = ""
    /\ codec.pc = "decoded" =>
          /\ ~codec.err
          /\ codec.out.name = codec.cat.name
          /\ codec.out.id = codec.cat.id
          /\ codec.out.birthDate = codec.cat.birthDate
          /\ codec.out.color = codec.cat.color

C14_Witness ==
    /\ codec.pc = "decoded"
    /\ codec.cat.name = "Fluffy" /\ codec.cat.id = ""
    /\ codec.cat.birthDate = "" /\ codec.cat.color = "White"
    /\ codec.out = codec.cat

\* The characters of a sequence.
Chars(seq) == {seq[i] : i \in 1..Len(seq)}

\* C15: for the prefix "/cats/", a path that starts with the prefix and is
\* longer gives the text after the prefix up to, not including, the next
\* '/'; a path equal to the prefix, shorter than it or not starting with it
\* gives the empty string.
C15_PathParam ==
    route.pc = "done" =>
        LET n == Len(CatsPrefix)
            after == SubSeq(route.path, n + 1, Len(route.path))
        IN  IF Len(route.path) > n /\ SubSeq(route.path, 1, n) = CatsPrefix
            THEN /\ "/" \notin Chars(route.param)
                 /\ Len(route.param) <= Len(after)
                 /\ route.param = SubSeq(after, 1, Len(route.param))
                 /\ Len(route.param) < Len(after) => after[Len(route.param) + 1] = "/"
            ELSE route.param = <<>>

C15_Witness ==
    /\ route.pc = "done"
    /\ route.path = CatsPrefix \o <<"1", "/", "a">>
    /\ route.param = <<"1">>

C15_WitnessShort ==
    /\ route.pc = "done"
    /\ route.path = <<"/", "c", "a", "t", "s">>
    /\ route.param = <<>>

\* C17: under concurrent requests no structural mutation of the store (the
\* insert in createCat, the delete in deleteCat) runs at the same time as
\* another structural mutation or as a read of the store (the lookup of
\* getCat or deleteCat, the key iteration of listCats).
C17_MutualExclusion ==
    \A g \in Goroutines, h \in Goroutines :
        (g # h /\ Writing(g)) => ~(Reading(h) \/ Writing(h))

\* C21: a record's id is assigned once, at creation, and the record never
\* changes afterwards: in every step, whatever the operation, every key that
\* the store holds before and after the step holds the same record, equal in
\* all fields.
C21_RecordNeverChanged ==
    [][\A k \in DOMAIN catsDatabase \cap DOMAIN catsDatabase' :
            catsDatabase'[k] = catsDatabase[k]]_vars

C21_Witness ==
    /\ prev.op = "createCat" /\ prev.status = StatusCreated
    /\ last.op = "createCat" /\ last.status = StatusCreated
    /\ prev.body.str \in DOMAIN catsDatabase
    /\ catsDatabase[prev.body.str] = last.before[prev.body.str]
    /\ catsDatabase[prev.body.str].id = prev.body.str
    /\ catsDatabase[last.body.str] # catsDatabase[prev.body.str]

\* C22: in every reachable state, starting from the program's initial store,
\* every record in the store has an id field equal to the key it is stored
\* under, so getCat on a present key returns a record whose id is that key.
C22_IdIsKey ==
    /\ \A k \in DOMAIN catsDatabase : catsDatabase[k].id = k
    /\ (last.op = "getCat" /\ last.status = StatusOK) => last.body.cat.id = last.catId

\* C23: getCat and listCats never change the store: after either call, on
\* the found path and on the not-found path, the store has the same keys and
\* the same records as before the call.
C23_ReadsKeepStore ==
    last.op \in {"getCat", "listCats"} =>
        /\ DOMAIN catsDatabase = DOMAIN last.before
        /\ \A k \in DOMAIN last.before : catsDatabase[k] = last.before[k]

C23_Witness ==
    /\ prev.op = "getCat" /\ prev.status = StatusNotFound
    /\ last.op = "getCat" /\ last.status = StatusOK
    /\ prev.before = last.before /\ catsDatabase = last.before

C23_WitnessList ==
    /\ last.op = "listCats" /\ Len(last.body.ids) = 2
    /\ catsDatabase = last.before

\* C24: a successful createCat adds exactly one key to the store and leaves
\* every record that was already there unchanged: the store grows by exactly
\* 1 and the old store is a sub-map of the new one.
C24_CreateAddsOneKey ==
    (last.op = "createCat" /\ last.status = StatusCreated) =>
        /\ Cardinality(DOMAIN catsDatabase) = Cardinality(DOMAIN last.before) + 1
        /\ DOMAIN last.before \subseteq DOMAIN catsDatabase
        /\ \A k \in DOMAIN last.before : catsDatabase[k] = last.before[k]

C24_Witness ==
    /\ last.op = "createCat" /\ last.status = StatusCreated
    /\ Cardinality(DOMAIN last.before) = 2
    /\ Cardinality(DOMAIN catsDatabase) = 3

\* C25: a successful deleteCat(id) removes exactly the key id and leaves every
\* other record unchanged: the store shrinks by exactly 1 and the new store is
\* the old store restricted to the keys other than id.
C25_DeleteRemovesOneKey ==
    (last.op = "deleteCat" /\ last.status = StatusNoContent) =>
        /\ Cardinality(DOMAIN catsDatabase) + 1 = Cardinality(DOMAIN last.before)
        /\ DOMAIN catsDatabase = DOMAIN last.before \ {last.catId}
        /\ \A k \in DOMAIN catsDatabase : catsDatabase[k] = last.before[k]

C25_Witness ==
    /\ last.op = "deleteCat" /\ last.status = StatusNoContent
    /\ Cardinality(DOMAIN last.before) = 3
    /\ Cardinality(DOMAIN catsDatabase) = 2

\* C29: once an id returned by createCat has been deleted, it never becomes a
\* key of the store again: a returned id that is no key stays no key in every
\* step, getCat and deleteCat on it return 404 and listCats does not hold it.
C29_DeletedIdStaysGone ==
    /\ [][\A id \in returned :
             id \notin DOMAIN catsDatabase => id \notin DOMAIN catsDatabase']_vars
    /\ [](\A id \in returned \ DOMAIN catsDatabase :
             /\ getCat(catsDatabase, id) = NotFound
             /\ deleteCat(catsDatabase, id).status = StatusNotFound
             /\ deleteCat(catsDatabase, id).body = StringBody("Cat not found")
             /\ \A r \in listCats(catsDatabase) : id \notin IdsOf(r.body))

C29_Witness ==
    /\ prev.op = "deleteCat" /\ prev.status = StatusNoContent
    /\ prev.catId \in returned
    /\ last.op = "createCat" /\ last.status = StatusCreated
    /\ prev.catId \notin DOMAIN catsDatabase
    /\ last.body.str # prev.catId

C29_WitnessGet ==
    /\ prev.op = "deleteCat" /\ prev.status = StatusNoContent
    /\ prev.catId \in returned
    /\ last.op = "getCat" /\ last.catId = prev.catId
    /\ last.status = StatusNotFound

\* Both requests that arrived together have returned.
BothDone == \A g \in Goroutines : gor[g].pc = "done"

\* C26: when two deleteCat requests for the same present id run concurrently,
\* in every interleaving of their lookup and removal steps exactly one of
\* them returns 204 and the other returns 404.
C26_OneDeleteWins ==
    (BothDone /\ \A g \in Goroutines : gor[g].op = "deleteCat") =>
        \E g \in Goroutines :
            /\ gor[g].status = StatusNoContent
            /\ \A h \in Goroutines \ {g} : gor[h].status = StatusNotFound

\* C27: when two createCat requests with valid bodies run concurrently, in
\* every interleaving both return 201 with two different ids, and once both
\* have completed the store holds both records, each under its own id, with
\* neither lost or overwritten.
C27_BothCreatesStored ==
    (\A g \in Goroutines : gor[g].pc = "called" /\ gor[g].op = "createCat")
        ~> (/\ BothDone
            /\ \A g \in Goroutines :
                  /\ gor[g].status = StatusCreated
                  /\ gor[g].body.str \in DOMAIN catsDatabase
                  /\ catsDatabase[gor[g].body.str] =
                        [Decode(gor[g].reqBody).cat EXCEPT !.id = gor[g].body.str]
            /\ \A g \in Goroutines, h \in Goroutines :
                  g # h => gor[g].body.str # gor[h].body.str)

\* C28: every handler invocation (listCats, createCat, getCat, deleteCat)
\* reaches a return with a status and body after a finite number of steps:
\* under fair scheduling every started request eventually completes.
C28_EveryRequestReturns ==
    \A g \in Goroutines :
        (gor[g].pc = "called") ~> (gor[g].pc = "done" /\ gor[g].status # 0)

====
